---- MODULE Spec2Model ----
(***************************************************************************)
(* The gateway handshake of symfonia: establish_connection and             *)
(* finish_connecting of src/gateway/establish_connection.rs, run for       *)
(* two concurrent connections against one GatewayUsersStore.               *)
(*                                                                         *)
(* Every connection is one tokio task that polls a select! of three        *)
(* branches (kill, 30 s sleep, finish_connecting).  A step of the model is *)
(* one stretch of code between two points where the task, or a parallel    *)
(* task on another worker thread, can observe shared state: an await, or   *)
(* the acquisition of a mutex.  The select! branches for kill and sleep    *)
(* can only win while finish_connecting is suspended at an await.          *)
(*                                                                         *)
(* HeartbeatHandler, gateway_task, resume_connection and check_token are   *)
(* not part of the files modelled here; the handler is modelled from its   *)
(* contract, the others by their possible outcomes.                        *)
(***************************************************************************)
EXTENDS Integers, Sequences, FiniteSets, TLC

\* ------------------------------------------------------------ bounds
\* NumUsers: user ids a token can carry.  MaxFrames: frames the peers send,
\* over all connections.  Two connections handshake concurrently.
NumUsers == 2
MaxFrames == 3

\* --------------------------------------------------- program constants
HandshakeTimeoutSecs == 30
HeartbeatChannelCapacity == 4
HeartbeatIntervalSecs == 45

Conns == {1, 2}
UserIds == 1..NumUsers

VARIABLES
    pc,           \* where each connection's establish_connection is
    result,       \* what establish_connection returned ("none": not yet)
    cause,        \* which select! branch or statement produced the result
    sleepLeft,    \* seconds left of the sleep created in the select!
    waited,       \* seconds spent in the select! so far (up to the timeout)
    stalled,      \* seconds spent so far in accept_async and the Hello write
                  \* (up to the timeout; 0 once the select! is entered
                  \* or the call has returned)
    frames,       \* frames the peers have sent so far, over all connections
    outbox,       \* frames written to the connection's write half, in order
    connLock,     \* holder of the Arc<Mutex<Connection>>
    heartbeat_handler_handle,  \* 0 is None, else the id of the spawned task
    hbSpawned,    \* HeartbeatHandler tasks spawned for the connection
    hb,           \* state of the connection's HeartbeatHandler task
    hbQueue,      \* heartbeats queued in the handler's message_receive
    hbSeen,       \* heartbeat frames the handshake loop has handled
    hbForwarded,  \* heartbeats sent on message_send to a live handler
    hbIdle,       \* seconds since the handler's last_heartbeat (up to its limit)
    killRx,       \* live receivers of the kill channel
    killQ,        \* receivers with an unread kill signal
    killBy,       \* who has sent on the kill channel
    mainSpawned,  \* gateway_task tasks spawned for the connection
    claims,       \* claims.id returned by check_token (0: none)
    gateway_user, \* the local gateway_user (index into users, 0: none)
    client,       \* the GatewayClient built for the connection
    newConn,      \* the NewConnection returned on success
    store,        \* GatewayUsersStore: user id -> index into users (0: absent)
    storeLock,    \* holder of the store's mutex (0: free)
    users,        \* the GatewayUser objects allocated so far
    creator,      \* for each GatewayUser object, the connection that created it
    userLock,     \* holder of each GatewayUser's mutex (0: free)
    lastFrame     \* the last text frame a handshake loop classified, and as what

vars == <<pc, result, cause, sleepLeft, waited, stalled, frames, outbox,
          connLock, heartbeat_handler_handle, hbSpawned, hb, hbQueue, hbSeen, hbForwarded, hbIdle,
          killRx, killQ, killBy, mainSpawned, claims, gateway_user, client, newConn, store,
          storeLock, users, creator, userLock, lastFrame>>

\* ------------------------------------------------------------ values
Shapes == {"Heartbeat", "Identify", "Resume"}
NoFrame == [k |-> "none", s |-> {}]
EndOfStream == [k |-> "end", s |-> {}]
ErrFrame == [k |-> "err", s |-> {}]
TextFrame(s) == [k |-> "text", s |-> s]

NoClient == [parent |-> 0, heartbeat_task_handle |-> 0, main_task_handle |-> 0,
             owns_kill_send |-> FALSE]
NoConnection == [user |-> 0, client |-> 0]

\* Frames the server writes.
Hello == [op |-> "Hello", code |-> 0]
HeartbeatAck == [op |-> "HeartbeatAck", code |-> 0]
Close(code) == [op |-> "Close", code |-> code]

\* finish_connecting is suspended at an await in these positions.
SuspendedPcs == {"wait_conn", "next", "check_token", "wait_store", "wait_user",
                 "resume", "close_wait"}
RacePcs == SuspendedPcs \cup {"lock_conn", "lock_store", "in_store",
                              "lock_user", "in_user"}
InRace(c) == pc[c] \in RacePcs
Suspended(c) == pc[c] \in SuspendedPcs

\* The receivers of the kill channel that establish_connection itself holds:
\* kill_receive, moved into finish_connecting, and second_kill_receive, polled
\* by the select!.
OrchReceivers_Dropped == {}

OrchReceivers == {"second_kill_receive", "kill_receive"}

\* The values sent so far on session_id_send, the sender of the session_id
\* channel: the sender is created and never used, nothing is ever sent.
session_id_send(c) == <<>>

\* The owners of a sender of the heartbeat channel: message_send is moved
\* into finish_connecting and is never cloned, gateway_task is given the
\* Connection only.
MessageSenders(c) == IF InRace(c) THEN {"finish_connecting"} ELSE {}

\* ------------------------------------------------------ pure helpers

\* The parse chain of finish_connecting: the first shape that deserializes.
Classify_IdentifyFirst(shapes) ==
    IF "Identify" \in shapes THEN "Identify"
    ELSE IF "Heartbeat" \in shapes THEN "Heartbeat"
    ELSE IF "Resume" \in shapes THEN "Resume"
    ELSE "Unexpected"

Classify(shapes) ==
    IF "Heartbeat" \in shapes THEN "Heartbeat"
    ELSE IF "Identify" \in shapes THEN "Identify"
    ELSE IF "Resume" \in shapes THEN "Resume"
    ELSE "Unexpected"

Min(a, b) == IF a < b THEN a ELSE b
Max(a, b) == IF a > b THEN a ELSE b

\* tokio::time::sleep(Duration::from_secs(30)), created when the select! starts.
Sleep == HandshakeTimeoutSecs

\* The handler gives up after two heartbeat intervals without a heartbeat.
HeartbeatLimitSecs == 2 * HeartbeatIntervalSecs

\* A broadcast send into a receiver's queue of the given capacity: the oldest
\* value is overwritten when the queue is full.
BroadcastPush(q, cap) == IF q < cap THEN q + 1 ELSE cap

\* get_or_new_gateway_user, between taking and releasing the store's lock.
get_or_new_gateway_user_AlwaysInsert(st, us, user_id) ==
    [store |-> [st EXCEPT ![user_id] = Len(us) + 1],
     users |-> Append(us, [id |-> user_id, clients |-> <<>>]),
     user  |-> Len(us) + 1]

get_or_new_gateway_user(st, us, user_id) ==
    IF st[user_id] # 0
    THEN [store |-> st, users |-> us, user |-> st[user_id]]
    ELSE [store |-> [st EXCEPT ![user_id] = Len(us) + 1],
          users |-> Append(us, [id |-> user_id, clients |-> <<>>]),
          user  |-> Len(us) + 1]

\* heartbeat_task_handle of the new GatewayClient: the handle carried over
\* from the loop, or a freshly spawned handler.
HeartbeatTaskHandle_AlwaysSpawn(handle, spawned) ==
    [handle |-> spawned + 1, spawned |-> spawned + 1]

HeartbeatTaskHandle(handle, spawned) ==
    IF handle # 0
    THEN [handle |-> handle, spawned |-> spawned]
    ELSE [handle |-> spawned + 1, spawned |-> spawned + 1]

\* The GatewayClient literal.
NewGatewayClient_NoParent(user, hbh, main) ==
    [parent |-> 0, heartbeat_task_handle |-> hbh, main_task_handle |-> main,
     owns_kill_send |-> TRUE]

NewGatewayClient(user, hbh, main) ==
    [parent |-> user, heartbeat_task_handle |-> hbh, main_task_handle |-> main,
     owns_kill_send |-> TRUE]

\* ------------------------------------------------------------ Init
Init ==
    /\ pc = [c \in Conns |-> "accept"]
    /\ result = [c \in Conns |-> "none"]
    /\ cause = [c \in Conns |-> "none"]
    /\ sleepLeft = [c \in Conns |-> 0]
    /\ waited = [c \in Conns |-> 0]
    /\ stalled = [c \in Conns |-> 0]
    /\ frames = 0
    /\ outbox = [c \in Conns |-> <<>>]
    /\ connLock = [c \in Conns |-> "free"]
    /\ heartbeat_handler_handle = [c \in Conns |-> 0]
    /\ hbSpawned = [c \in Conns |-> 0]
    /\ hb = [c \in Conns |-> "none"]
    /\ hbQueue = [c \in Conns |-> 0]
    /\ hbSeen = [c \in Conns |-> 0]
    /\ hbForwarded = [c \in Conns |-> 0]
    /\ hbIdle = [c \in Conns |-> 0]
    /\ killRx = [c \in Conns |-> {}]
    /\ killQ = [c \in Conns |-> {}]
    /\ killBy = [c \in Conns |-> {}]
    /\ mainSpawned = [c \in Conns |-> 0]
    /\ claims = [c \in Conns |-> 0]
    /\ gateway_user = [c \in Conns |-> 0]
    /\ client = [c \in Conns |-> NoClient]
    /\ newConn = [c \in Conns |-> NoConnection]
    /\ store = [u \in UserIds |-> 0]
    /\ storeLock = 0
    /\ users = <<>>
    /\ creator = <<>>
    /\ userLock = [i \in Conns |-> 0]
    /\ lastFrame = [conn |-> 0, frame |-> NoFrame, as |-> "none"]


\* ------------------------------------------------------------ the clock
\* Time passes, in steps of the handshake timeout, for every pending
\* upgrade or Hello write, every running sleep and every running handler
\* at once.
HandlerRuns(c) == hb[c] \in {"wait", "lock", "send"}

\* Connections are interchangeable: they are accepted in index order.
Accepting(c) ==
    /\ pc[c] = "accept"
    /\ \A d \in Conns : d < c => pc[d] # "accept"

\* accept_async(stream).await or the Hello write is pending: both run before
\* the select! and so before its sleep exists.
Upgrading(c) == Accepting(c) \/ pc[c] = "hello"

Tick ==
    /\ sleepLeft' = [c \in Conns |->
                       IF InRace(c) THEN Max(0, sleepLeft[c] - HandshakeTimeoutSecs)
                       ELSE sleepLeft[c]]
    /\ waited' = [c \in Conns |->
                    IF InRace(c) THEN Min(HandshakeTimeoutSecs, waited[c] + HandshakeTimeoutSecs)
                    ELSE waited[c]]
    /\ stalled' = [c \in Conns |->
                     IF Upgrading(c) THEN Min(HandshakeTimeoutSecs, stalled[c] + HandshakeTimeoutSecs)
                     ELSE stalled[c]]
    /\ hbIdle' = [c \in Conns |->
                    IF HandlerRuns(c) THEN Min(HeartbeatLimitSecs, hbIdle[c] + HandshakeTimeoutSecs)
                    ELSE hbIdle[c]]
    /\ UNCHANGED <<pc, result, cause, frames, outbox,
                   connLock, heartbeat_handler_handle, hbSpawned, hb, hbQueue, hbSeen, hbForwarded,
                   killRx, killQ, killBy, mainSpawned, claims, gateway_user, client,
                   newConn, store, storeLock, users, creator, userLock, lastFrame>>

\* ------------------------------------------- establish_connection, lines 40-64

AcceptAsyncOk(c) ==
    /\ Accepting(c)
    /\ pc' = [pc EXCEPT ![c] = "hello"]
    /\ UNCHANGED <<result, cause, sleepLeft, waited, frames, outbox,
                   connLock, heartbeat_handler_handle, hbSpawned, hb, hbQueue, hbSeen, hbForwarded, hbIdle,
                   killRx, killQ, killBy, mainSpawned, claims, gateway_user, client,
                   newConn, store, storeLock, users, creator, userLock, lastFrame, stalled>>

AcceptAsyncErr(c) ==
    /\ Accepting(c)
    /\ pc' = [pc EXCEPT ![c] = "done"]
    /\ sleepLeft' = [sleepLeft EXCEPT ![c] = 0]
    /\ waited' = [waited EXCEPT ![c] = 0]
    /\ result' = [result EXCEPT ![c] = "HandshakeFailed"]
    /\ cause' = [cause EXCEPT ![c] = "accept_async"]
    /\ stalled' = [stalled EXCEPT ![c] = 0]
    /\ UNCHANGED <<frames, outbox,
                   connLock, heartbeat_handler_handle, hbSpawned, hb, hbQueue, hbSeen, hbForwarded, hbIdle,
                   killRx, killQ, killBy, mainSpawned, claims, gateway_user, client,
                   newConn, store, storeLock, users, creator, userLock, lastFrame>>

SendHelloOk_SkipsHello(c) ==
    /\ pc[c] = "hello"
    /\ killRx' = [killRx EXCEPT ![c] = OrchReceivers]
    /\ waited' = [waited EXCEPT ![c] = 0]
    /\ sleepLeft' = [sleepLeft EXCEPT ![c] = Sleep]
    /\ pc' = [pc EXCEPT ![c] = "lock_conn"]
    /\ stalled' = [stalled EXCEPT ![c] = 0]
    /\ UNCHANGED <<result, cause, frames, outbox,
                   connLock, heartbeat_handler_handle, hbSpawned, hb, hbQueue, hbSeen, hbForwarded, hbIdle,
                   killQ, killBy, mainSpawned, claims, gateway_user, client,
                   newConn, store, storeLock, users, creator, userLock, lastFrame>>

\* The Hello frame is written, the channels are created and the select! is
\* entered: its sleep starts now.
SendHelloOk(c) ==
    /\ pc[c] = "hello"
    /\ outbox' = [outbox EXCEPT ![c] = Append(@, Hello)]
    /\ killRx' = [killRx EXCEPT ![c] = OrchReceivers]
    /\ waited' = [waited EXCEPT ![c] = 0]
    /\ sleepLeft' = [sleepLeft EXCEPT ![c] = Sleep]
    /\ pc' = [pc EXCEPT ![c] = "lock_conn"]
    /\ stalled' = [stalled EXCEPT ![c] = 0]
    /\ UNCHANGED <<result, cause, frames,
                   connLock, heartbeat_handler_handle, hbSpawned, hb, hbQueue, hbSeen, hbForwarded, hbIdle,
                   killQ, killBy, mainSpawned, claims, gateway_user, client,
                   newConn, store, storeLock, users, creator, userLock, lastFrame>>

SendHelloErr(c) ==
    /\ pc[c] = "hello"
    /\ pc' = [pc EXCEPT ![c] = "done"]
    /\ sleepLeft' = [sleepLeft EXCEPT ![c] = 0]
    /\ waited' = [waited EXCEPT ![c] = 0]
    /\ result' = [result EXCEPT ![c] = "Transport"]
    /\ cause' = [cause EXCEPT ![c] = "hello"]
    /\ stalled' = [stalled EXCEPT ![c] = 0]
    /\ UNCHANGED <<frames, outbox,
                   connLock, heartbeat_handler_handle, hbSpawned, hb, hbQueue, hbSeen, hbForwarded, hbIdle,
                   killRx, killQ, killBy, mainSpawned, claims, gateway_user, client,
                   newConn, store, storeLock, users, creator, userLock, lastFrame>>

\* ------------------------------------------- the select!, lines 65-90
\* A select! branch other than finish_connecting completes: the
\* finish_connecting future is dropped with everything it owns (its lock
\* guard, its channel ends; its JoinHandles are detached, not aborted).
SelectKill_ReturnsTimeout(c) ==
    /\ Suspended(c)
    /\ "second_kill_receive" \in killQ[c]
    /\ pc' = [pc EXCEPT ![c] = "done"]
    /\ sleepLeft' = [sleepLeft EXCEPT ![c] = 0]
    /\ waited' = [waited EXCEPT ![c] = 0]
    /\ result' = [result EXCEPT ![c] = "Timeout"]
    /\ cause' = [cause EXCEPT ![c] = "kill"]
    /\ connLock' = [connLock EXCEPT ![c] = IF @ = "orch" THEN "free" ELSE @]
    /\ heartbeat_handler_handle' = [heartbeat_handler_handle EXCEPT ![c] = 0]
    /\ killRx' = [killRx EXCEPT ![c] = @ \ OrchReceivers]
    /\ killQ' = [killQ EXCEPT ![c] = @ \ OrchReceivers]
    /\ UNCHANGED <<frames, outbox,
                   hbSpawned, hb, hbQueue, hbSeen, hbForwarded, hbIdle,
                   killBy, mainSpawned, claims, gateway_user, client,
                   newConn, store, storeLock, users, creator, userLock, lastFrame, stalled>>

SelectKill(c) ==
    /\ Suspended(c)
    /\ "second_kill_receive" \in killQ[c]
    /\ pc' = [pc EXCEPT ![c] = "done"]
    /\ sleepLeft' = [sleepLeft EXCEPT ![c] = 0]
    /\ waited' = [waited EXCEPT ![c] = 0]
    /\ result' = [result EXCEPT ![c] = "Closed"]
    /\ cause' = [cause EXCEPT ![c] = "kill"]
    /\ connLock' = [connLock EXCEPT ![c] = IF @ = "orch" THEN "free" ELSE @]
    /\ heartbeat_handler_handle' = [heartbeat_handler_handle EXCEPT ![c] = 0]
    /\ killRx' = [killRx EXCEPT ![c] = @ \ OrchReceivers]
    /\ killQ' = [killQ EXCEPT ![c] = @ \ OrchReceivers]
    /\ UNCHANGED <<frames, outbox,
                   hbSpawned, hb, hbQueue, hbSeen, hbForwarded, hbIdle,
                   killBy, mainSpawned, claims, gateway_user, client,
                   newConn, store, storeLock, users, creator, userLock, lastFrame, stalled>>

SelectSleep(c) ==
    /\ Suspended(c)
    /\ sleepLeft[c] = 0
    /\ pc' = [pc EXCEPT ![c] = "done"]
    /\ sleepLeft' = [sleepLeft EXCEPT ![c] = 0]
    /\ waited' = [waited EXCEPT ![c] = 0]
    /\ result' = [result EXCEPT ![c] = "Timeout"]
    /\ cause' = [cause EXCEPT ![c] = "sleep"]
    /\ connLock' = [connLock EXCEPT ![c] = IF @ = "orch" THEN "free" ELSE @]
    /\ heartbeat_handler_handle' = [heartbeat_handler_handle EXCEPT ![c] = 0]
    /\ killRx' = [killRx EXCEPT ![c] = @ \ OrchReceivers]
    /\ killQ' = [killQ EXCEPT ![c] = @ \ OrchReceivers]
    /\ UNCHANGED <<frames, outbox,
                   hbSpawned, hb, hbQueue, hbSeen, hbForwarded, hbIdle,
                   killBy, mainSpawned, claims, gateway_user, client,
                   newConn, store, storeLock, users, creator, userLock, lastFrame, stalled>>

\* ------------------------------------------- finish_connecting, line 130
\* connection.lock().await: taken at once when free, else the task suspends.
LockConnection(c) ==
    /\ pc[c] \in {"lock_conn", "wait_conn"}
    /\ connLock[c] = "free"
    /\ connLock' = [connLock EXCEPT ![c] = "orch"]
    /\ pc' = [pc EXCEPT ![c] = "next"]
    /\ UNCHANGED <<result, cause, sleepLeft, waited, frames, outbox,
                   heartbeat_handler_handle, hbSpawned, hb, hbQueue, hbSeen, hbForwarded, hbIdle,
                   killRx, killQ, killBy, mainSpawned, claims, gateway_user, client,
                   newConn, store, storeLock, users, creator, userLock, lastFrame, stalled>>

LockConnectionPending(c) ==
    /\ pc[c] = "lock_conn"
    /\ connLock[c] # "free"
    /\ pc' = [pc EXCEPT ![c] = "wait_conn"]
    /\ UNCHANGED <<result, cause, sleepLeft, waited, frames, outbox,
                   connLock, heartbeat_handler_handle, hbSpawned, hb, hbQueue, hbSeen, hbForwarded, hbIdle,
                   killRx, killQ, killBy, mainSpawned, claims, gateway_user, client,
                   newConn, store, storeLock, users, creator, userLock, lastFrame, stalled>>

\* receiver.next().await yields what the peer sends next: a text frame, a
\* frame the WebSocket layer rejects, or the end of the stream.  The guard
\* taken at line 130 is released at the end of the statement, before the
\* frame is classified.
Received(c, f) ==
    /\ pc[c] = "next"
    /\ connLock[c] = "orch"
    /\ frames < MaxFrames
    /\ f # NoFrame
    /\ frames' = frames + 1
    /\ connLock' = [connLock EXCEPT ![c] = "free"]

\* None => return Err(GatewayError::Timeout)
RecvEndOfStream(c) ==
    /\ Received(c, EndOfStream)
    /\ pc' = [pc EXCEPT ![c] = "done"]
    /\ sleepLeft' = [sleepLeft EXCEPT ![c] = 0]
    /\ waited' = [waited EXCEPT ![c] = 0]
    /\ result' = [result EXCEPT ![c] = "Timeout"]
    /\ cause' = [cause EXCEPT ![c] = "stream_end"]
    /\ heartbeat_handler_handle' = [heartbeat_handler_handle EXCEPT ![c] = 0]
    /\ killRx' = [killRx EXCEPT ![c] = @ \ OrchReceivers]
    /\ killQ' = [killQ EXCEPT ![c] = @ \ OrchReceivers]
    /\ UNCHANGED <<outbox,
                   hbSpawned, hb, hbQueue, hbSeen, hbForwarded, hbIdle,
                   killBy, mainSpawned, claims, gateway_user, client,
                   newConn, store, storeLock, users, creator, userLock, lastFrame, stalled>>

\* Some(Err(e)) => the `?` returns the WebSocket error
RecvError(c) ==
    /\ Received(c, ErrFrame)
    /\ pc' = [pc EXCEPT ![c] = "done"]
    /\ sleepLeft' = [sleepLeft EXCEPT ![c] = 0]
    /\ waited' = [waited EXCEPT ![c] = 0]
    /\ result' = [result EXCEPT ![c] = "Transport"]
    /\ cause' = [cause EXCEPT ![c] = "stream_error"]
    /\ heartbeat_handler_handle' = [heartbeat_handler_handle EXCEPT ![c] = 0]
    /\ killRx' = [killRx EXCEPT ![c] = @ \ OrchReceivers]
    /\ killQ' = [killQ EXCEPT ![c] = @ \ OrchReceivers]
    /\ UNCHANGED <<outbox,
                   hbSpawned, hb, hbQueue, hbSeen, hbForwarded, hbIdle,
                   killBy, mainSpawned, claims, gateway_user, client,
                   newConn, store, storeLock, users, creator, userLock, lastFrame, stalled>>


\* ------------------------------------------- finish_connecting, lines 136-166
\* A frame that parses as a heartbeat.  The first one spawns the
\* HeartbeatHandler (with resubscribed receivers, which see only later
\* messages); every later one is sent on message_send.  The loop continues.
RecvHeartbeat_RestartsSleep(c) ==
    \E s \in SUBSET Shapes :
        /\ Received(c, TextFrame(s))
        /\ Classify(s) = "Heartbeat"
        /\ lastFrame' = [conn |-> c, frame |-> TextFrame(s), as |-> "Heartbeat"]
        /\ hbSeen' = [hbSeen EXCEPT ![c] = @ + 1]
        /\ IF heartbeat_handler_handle[c] = 0
           THEN /\ hbSpawned' = [hbSpawned EXCEPT ![c] = @ + 1]
                /\ heartbeat_handler_handle' = [heartbeat_handler_handle EXCEPT ![c] = hbSpawned[c] + 1]
                /\ hb' = [hb EXCEPT ![c] = "wait"]
                /\ hbIdle' = [hbIdle EXCEPT ![c] = 0]
                /\ killRx' = [killRx EXCEPT ![c] = @ \cup {"hb"}]
                /\ UNCHANGED <<hbQueue, hbForwarded>>
           ELSE /\ hbQueue' = [hbQueue EXCEPT ![c] =
                                 IF hb[c] \in {"none", "dead"} THEN @
                                 ELSE BroadcastPush(@, HeartbeatChannelCapacity)]
                /\ hbForwarded' = [hbForwarded EXCEPT ![c] =
                                     IF hb[c] \in {"none", "dead"} THEN @ ELSE @ + 1]
                /\ UNCHANGED <<hbSpawned, heartbeat_handler_handle, hb, hbIdle, killRx>>
        /\ pc' = [pc EXCEPT ![c] = "lock_conn"]
        /\ sleepLeft' = [sleepLeft EXCEPT ![c] = Sleep]
        /\ UNCHANGED <<result, cause, waited, outbox,
                       killQ, killBy, mainSpawned, claims, gateway_user, client,
                       newConn, store, storeLock, users, creator, userLock, stalled>>

RecvHeartbeat(c) ==
    \E s \in SUBSET Shapes :
        /\ Received(c, TextFrame(s))
        /\ Classify(s) = "Heartbeat"
        /\ lastFrame' = [conn |-> c, frame |-> TextFrame(s), as |-> "Heartbeat"]
        /\ hbSeen' = [hbSeen EXCEPT ![c] = @ + 1]
        /\ IF heartbeat_handler_handle[c] = 0
           THEN /\ hbSpawned' = [hbSpawned EXCEPT ![c] = @ + 1]
                /\ heartbeat_handler_handle' = [heartbeat_handler_handle EXCEPT ![c] = hbSpawned[c] + 1]
                /\ hb' = [hb EXCEPT ![c] = "wait"]
                /\ hbIdle' = [hbIdle EXCEPT ![c] = 0]
                /\ killRx' = [killRx EXCEPT ![c] = @ \cup {"hb"}]
                /\ UNCHANGED <<hbQueue, hbForwarded>>
           ELSE /\ hbQueue' = [hbQueue EXCEPT ![c] =
                                 IF hb[c] \in {"none", "dead"} THEN @
                                 ELSE BroadcastPush(@, HeartbeatChannelCapacity)]
                /\ hbForwarded' = [hbForwarded EXCEPT ![c] =
                                     IF hb[c] \in {"none", "dead"} THEN @ ELSE @ + 1]
                /\ UNCHANGED <<hbSpawned, heartbeat_handler_handle, hb, hbIdle, killRx>>
        /\ pc' = [pc EXCEPT ![c] = "lock_conn"]
        /\ UNCHANGED <<result, cause, sleepLeft, waited, outbox,
                       killQ, killBy, mainSpawned, claims, gateway_user, client,
                       newConn, store, storeLock, users, creator, userLock, stalled>>

\* ------------------------------------------- finish_connecting, lines 167-169
\* A frame that parses as an identify: check_token(..).await
RecvIdentify(c) ==
    \E s \in SUBSET Shapes :
        /\ Received(c, TextFrame(s))
        /\ Classify(s) = "Identify"
        /\ lastFrame' = [conn |-> c, frame |-> TextFrame(s), as |-> "Identify"]
        /\ pc' = [pc EXCEPT ![c] = "check_token"]
        /\ UNCHANGED <<result, cause, sleepLeft, waited, outbox,
                       heartbeat_handler_handle, hbSpawned, hb, hbQueue, hbSeen, hbForwarded, hbIdle,
                       killRx, killQ, killBy, mainSpawned, claims, gateway_user, client,
                       newConn, store, storeLock, users, creator, userLock, stalled>>

\* ------------------------------------------- finish_connecting, lines 214-216
\* A frame that parses as a resume: resume_connection(..).await
RecvResume(c) ==
    \E s \in SUBSET Shapes :
        /\ Received(c, TextFrame(s))
        /\ Classify(s) = "Resume"
        /\ lastFrame' = [conn |-> c, frame |-> TextFrame(s), as |-> "Resume"]
        /\ pc' = [pc EXCEPT ![c] = "resume"]
        /\ UNCHANGED <<result, cause, sleepLeft, waited, outbox,
                       heartbeat_handler_handle, hbSpawned, hb, hbQueue, hbSeen, hbForwarded, hbIdle,
                       killRx, killQ, killBy, mainSpawned, claims, gateway_user, client,
                       newConn, store, storeLock, users, creator, userLock, stalled>>

\* ------------------------------------------- finish_connecting, lines 217-220
RecvUnexpected(c) ==
    \E s \in SUBSET Shapes :
        /\ Received(c, TextFrame(s))
        /\ Classify(s) = "Unexpected"
        /\ lastFrame' = [conn |-> c, frame |-> TextFrame(s), as |-> "Unexpected"]
        /\ pc' = [pc EXCEPT ![c] = "done"]
        /\ sleepLeft' = [sleepLeft EXCEPT ![c] = 0]
        /\ waited' = [waited EXCEPT ![c] = 0]
        /\ result' = [result EXCEPT ![c] = "UnexpectedMessage"]
        /\ cause' = [cause EXCEPT ![c] = "unexpected"]
        /\ heartbeat_handler_handle' = [heartbeat_handler_handle EXCEPT ![c] = 0]
        /\ killRx' = [killRx EXCEPT ![c] = @ \ OrchReceivers]
        /\ killQ' = [killQ EXCEPT ![c] = @ \ OrchReceivers]
        /\ UNCHANGED <<outbox,
                       hbSpawned, hb, hbQueue, hbSeen, hbForwarded, hbIdle,
                       killBy, mainSpawned, claims, gateway_user, client,
                       newConn, store, storeLock, users, creator, userLock, stalled>>

\* ------------------------------------------- finish_connecting, lines 169-177
\* check_token fails: kill_send.send(()) and the return happen in one poll,
\* with no await between them.
\* A broadcast send fails when the channel has no
\* receiver, and the `expect` then panics.
CheckTokenErr_AwaitsAfterKill(c) ==
    /\ pc[c] = "check_token"
    /\ killQ' = [killQ EXCEPT ![c] = killRx[c]]
    /\ killBy' = [killBy EXCEPT ![c] = @ \cup {"orchestrator"}]
    /\ pc' = [pc EXCEPT ![c] = "close_wait"]
    /\ UNCHANGED <<result, cause, sleepLeft, waited, frames, outbox,
                   connLock, heartbeat_handler_handle, hbSpawned, hb, hbQueue, hbSeen, hbForwarded, hbIdle,
                   killRx, mainSpawned, claims, gateway_user, client,
                   newConn, store, storeLock, users, creator, userLock, lastFrame, stalled>>

CheckTokenErr(c) ==
    /\ pc[c] = "check_token"
    /\ killQ' = [killQ EXCEPT ![c] = killRx[c] \ OrchReceivers]
    /\ killBy' = [killBy EXCEPT ![c] = @ \cup {"orchestrator"}]
    /\ killRx' = [killRx EXCEPT ![c] = @ \ OrchReceivers]
    /\ pc' = [pc EXCEPT ![c] = "done"]
    /\ sleepLeft' = [sleepLeft EXCEPT ![c] = 0]
    /\ waited' = [waited EXCEPT ![c] = 0]
    /\ result' = [result EXCEPT ![c] =
                     IF killRx[c] = {} THEN "Panic" ELSE "InvalidToken"]
    /\ cause' = [cause EXCEPT ![c] = "check_token"]
    /\ heartbeat_handler_handle' = [heartbeat_handler_handle EXCEPT ![c] = 0]
    /\ UNCHANGED <<frames, outbox,
                   connLock, hbSpawned, hb, hbQueue, hbSeen, hbForwarded, hbIdle,
                   mainSpawned, claims, gateway_user, client,
                   newConn, store, storeLock, users, creator, userLock, lastFrame, stalled>>

\* check_token succeeds with the claims of some user.
CheckTokenOk(c) ==
    /\ pc[c] = "check_token"
    /\ \E u \in UserIds : claims' = [claims EXCEPT ![c] = u]
    /\ pc' = [pc EXCEPT ![c] = "lock_store"]
    /\ UNCHANGED <<result, cause, sleepLeft, waited, frames, outbox,
                   connLock, heartbeat_handler_handle, hbSpawned, hb, hbQueue, hbSeen, hbForwarded, hbIdle,
                   killRx, killQ, killBy, mainSpawned, gateway_user, client,
                   newConn, store, storeLock, users, creator, userLock, lastFrame, stalled>>

\* ------------------------------------------- get_or_new_gateway_user, line 101
LockStore(c) ==
    /\ pc[c] \in {"lock_store", "wait_store"}
    /\ storeLock = 0
    /\ storeLock' = c
    /\ pc' = [pc EXCEPT ![c] = "in_store"]
    /\ UNCHANGED <<result, cause, sleepLeft, waited, frames, outbox,
                   connLock, heartbeat_handler_handle, hbSpawned, hb, hbQueue, hbSeen, hbForwarded, hbIdle,
                   killRx, killQ, killBy, mainSpawned, claims, gateway_user, client,
                   newConn, store, users, creator, userLock, lastFrame, stalled>>

LockStorePending(c) ==
    /\ pc[c] = "lock_store"
    /\ storeLock # 0
    /\ pc' = [pc EXCEPT ![c] = "wait_store"]
    /\ UNCHANGED <<result, cause, sleepLeft, waited, frames, outbox,
                   connLock, heartbeat_handler_handle, hbSpawned, hb, hbQueue, hbSeen, hbForwarded, hbIdle,
                   killRx, killQ, killBy, mainSpawned, claims, gateway_user, client,
                   newConn, store, storeLock, users, creator, userLock, lastFrame, stalled>>

\* ------------------------------------------- lines 102-111 and 178-204
\* Under the store's lock: look the user up or insert it; release the lock.
\* Then build the GatewayClient: spawn gateway_task, take over or spawn the
\* HeartbeatHandler, move kill_send into the client.
GetUserAndBuildClient(c) ==
    /\ pc[c] = "in_store"
    /\ storeLock = c
    /\ LET r == get_or_new_gateway_user(store, users, claims[c])
           h == HeartbeatTaskHandle(heartbeat_handler_handle[c], hbSpawned[c])
       IN /\ store' = r.store
          /\ users' = r.users
          /\ creator' = IF Len(r.users) > Len(users) THEN Append(creator, c) ELSE creator
          /\ gateway_user' = [gateway_user EXCEPT ![c] = r.user]
          /\ mainSpawned' = [mainSpawned EXCEPT ![c] = @ + 1]
          /\ hbSpawned' = [hbSpawned EXCEPT ![c] = h.spawned]
          /\ IF h.spawned # hbSpawned[c]
             THEN /\ hb' = [hb EXCEPT ![c] = "wait"]
                  /\ hbIdle' = [hbIdle EXCEPT ![c] = 0]
                  /\ killRx' = [killRx EXCEPT ![c] = @ \cup {"hb"}]
                  /\ hbQueue' = [hbQueue EXCEPT ![c] = 0]
             ELSE UNCHANGED <<hb, hbIdle, killRx, hbQueue>>
          /\ client' = [client EXCEPT ![c] =
                          NewGatewayClient(r.user, h.handle, mainSpawned[c] + 1)]
    /\ storeLock' = 0
    /\ heartbeat_handler_handle' = [heartbeat_handler_handle EXCEPT ![c] = 0]
    /\ pc' = [pc EXCEPT ![c] = "lock_user"]
    /\ UNCHANGED <<result, cause, sleepLeft, waited, frames, outbox,
                   connLock, hbSeen, hbForwarded, killQ, killBy, claims,
                   newConn, userLock, lastFrame, stalled>>

\* ------------------------------------------- finish_connecting, lines 205-207
LockUser(c) ==
    /\ pc[c] \in {"lock_user", "wait_user"}
    /\ userLock[gateway_user[c]] = 0
    /\ userLock' = [userLock EXCEPT ![gateway_user[c]] = c]
    /\ pc' = [pc EXCEPT ![c] = "in_user"]
    /\ UNCHANGED <<result, cause, sleepLeft, waited, frames, outbox,
                   connLock, heartbeat_handler_handle, hbSpawned, hb, hbQueue, hbSeen, hbForwarded, hbIdle,
                   killRx, killQ, killBy, mainSpawned, claims, gateway_user, client,
                   newConn, store, storeLock, users, creator, lastFrame, stalled>>

LockUserPending(c) ==
    /\ pc[c] = "lock_user"
    /\ userLock[gateway_user[c]] # 0
    /\ pc' = [pc EXCEPT ![c] = "wait_user"]
    /\ UNCHANGED <<result, cause, sleepLeft, waited, frames, outbox,
                   connLock, heartbeat_handler_handle, hbSpawned, hb, hbQueue, hbSeen, hbForwarded, hbIdle,
                   killRx, killQ, killBy, mainSpawned, claims, gateway_user, client,
                   newConn, store, storeLock, users, creator, userLock, lastFrame, stalled>>

\* ------------------------------------------- finish_connecting, lines 208-213
\* clients.push(client); the user's lock is released; Ok(NewConnection).
PushClientAndReturn(c) ==
    /\ pc[c] = "in_user"
    /\ userLock[gateway_user[c]] = c
    /\ users' = [users EXCEPT ![gateway_user[c]].clients = Append(@, c)]
    /\ userLock' = [userLock EXCEPT ![gateway_user[c]] = 0]
    /\ newConn' = [newConn EXCEPT ![c] = [user |-> gateway_user[c], client |-> c]]
    /\ pc' = [pc EXCEPT ![c] = "done"]
    /\ sleepLeft' = [sleepLeft EXCEPT ![c] = 0]
    /\ waited' = [waited EXCEPT ![c] = 0]
    /\ result' = [result EXCEPT ![c] = "Ok"]
    /\ cause' = [cause EXCEPT ![c] = "identify"]
    /\ killRx' = [killRx EXCEPT ![c] = @ \ OrchReceivers]
    /\ killQ' = [killQ EXCEPT ![c] = @ \ OrchReceivers]
    /\ UNCHANGED <<frames, outbox,
                   connLock, heartbeat_handler_handle, hbSpawned, hb, hbQueue, hbSeen, hbForwarded, hbIdle,
                   killBy, mainSpawned, claims, gateway_user, client,
                   store, storeLock, creator, lastFrame, stalled>>

\* ------------------------------------------- resume_connection returns
ResumeOutcomes == {"Resumed", "InvalidToken", "CannotResume"}

ResumeConnectionReturns(c) ==
    /\ pc[c] = "resume"
    /\ \E r \in ResumeOutcomes : result' = [result EXCEPT ![c] = r]
    /\ pc' = [pc EXCEPT ![c] = "done"]
    /\ sleepLeft' = [sleepLeft EXCEPT ![c] = 0]
    /\ waited' = [waited EXCEPT ![c] = 0]
    /\ cause' = [cause EXCEPT ![c] = "resume"]
    /\ heartbeat_handler_handle' = [heartbeat_handler_handle EXCEPT ![c] = 0]
    /\ killRx' = [killRx EXCEPT ![c] = @ \ OrchReceivers]
    /\ killQ' = [killQ EXCEPT ![c] = @ \ OrchReceivers]
    /\ UNCHANGED <<frames, outbox,
                   connLock, hbSpawned, hb, hbQueue, hbSeen, hbForwarded, hbIdle,
                   killBy, mainSpawned, claims, gateway_user, client,
                   newConn, store, storeLock, users, creator, userLock, lastFrame, stalled>>

\* ------------------------------------------- HeartbeatHandler::run
\* The handler takes a heartbeat from message_receive ...
HeartbeatHandlerReceives(c) ==
    /\ hb[c] = "wait"
    /\ hbQueue[c] > 0
    /\ hbQueue' = [hbQueue EXCEPT ![c] = @ - 1]
    /\ hbIdle' = [hbIdle EXCEPT ![c] = 0]
    /\ hb' = [hb EXCEPT ![c] = "lock"]
    /\ UNCHANGED <<pc, result, cause, sleepLeft, waited, frames, outbox,
                   connLock, heartbeat_handler_handle, hbSpawned, hbSeen, hbForwarded,
                   killRx, killQ, killBy, mainSpawned, claims, gateway_user, client,
                   newConn, store, storeLock, users, creator, userLock, lastFrame, stalled>>

\* ... locks the Connection it shares with the handshake loop ...
HeartbeatHandlerLocks(c) ==
    /\ hb[c] = "lock"
    /\ connLock[c] = "free"
    /\ connLock' = [connLock EXCEPT ![c] = "hb"]
    /\ hb' = [hb EXCEPT ![c] = "send"]
    /\ UNCHANGED <<pc, result, cause, sleepLeft, waited, frames, outbox,
                   heartbeat_handler_handle, hbSpawned, hbQueue, hbSeen, hbForwarded, hbIdle,
                   killRx, killQ, killBy, mainSpawned, claims, gateway_user, client,
                   newConn, store, storeLock, users, creator, userLock, lastFrame, stalled>>

\* ... and writes the HeartbeatAck.
HeartbeatHandlerAcks(c) ==
    /\ hb[c] = "send"
    /\ connLock[c] = "hb"
    /\ outbox' = [outbox EXCEPT ![c] = Append(@, HeartbeatAck)]
    /\ connLock' = [connLock EXCEPT ![c] = "free"]
    /\ hb' = [hb EXCEPT ![c] = "wait"]
    /\ UNCHANGED <<pc, result, cause, sleepLeft, waited, frames,
                   heartbeat_handler_handle, hbSpawned, hbQueue, hbSeen, hbForwarded, hbIdle,
                   killRx, killQ, killBy, mainSpawned, claims, gateway_user, client,
                   newConn, store, storeLock, users, creator, userLock, lastFrame, stalled>>

\* The handler observes kill and exits.
HeartbeatHandlerKilled(c) ==
    /\ hb[c] = "wait"
    /\ "hb" \in killQ[c]
    /\ hb' = [hb EXCEPT ![c] = "dead"]
    /\ killRx' = [killRx EXCEPT ![c] = @ \ {"hb"}]
    /\ killQ' = [killQ EXCEPT ![c] = @ \ {"hb"}]
    /\ hbQueue' = [hbQueue EXCEPT ![c] = 0]
    /\ hbIdle' = [hbIdle EXCEPT ![c] = 0]
    /\ UNCHANGED <<pc, result, cause, sleepLeft, waited, frames, outbox,
                   connLock, heartbeat_handler_handle, hbSpawned, hbSeen, hbForwarded,
                   killBy, mainSpawned, claims, gateway_user, client,
                   newConn, store, storeLock, users, creator, userLock, lastFrame, stalled>>

\* No heartbeat for 2 x interval: the handler broadcasts kill and exits.
HeartbeatHandlerTimesOut(c) ==
    /\ hb[c] = "wait"
    /\ hbQueue[c] = 0
    /\ hbIdle[c] >= HeartbeatLimitSecs
    /\ hb' = [hb EXCEPT ![c] = "dead"]
    /\ killBy' = [killBy EXCEPT ![c] = @ \cup {"heartbeat"}]
    /\ killRx' = [killRx EXCEPT ![c] = @ \ {"hb"}]
    /\ killQ' = [killQ EXCEPT ![c] = killRx[c] \ {"hb"}]
    /\ hbIdle' = [hbIdle EXCEPT ![c] = 0]
    /\ UNCHANGED <<pc, result, cause, sleepLeft, waited, frames, outbox,
                   connLock, heartbeat_handler_handle, hbSpawned, hbQueue, hbSeen, hbForwarded,
                   mainSpawned, claims, gateway_user, client,
                   newConn, store, storeLock, users, creator, userLock, lastFrame, stalled>>

\* ------------------------------------------------------------ Next
Orchestrator(c) ==
    \/ AcceptAsyncOk(c)
    \/ AcceptAsyncErr(c)
    \/ SendHelloOk(c)
    \/ SendHelloErr(c)
    \/ SelectKill(c)
    \/ SelectSleep(c)
    \/ LockConnection(c)
    \/ LockConnectionPending(c)
    \/ RecvEndOfStream(c)
    \/ RecvError(c)
    \/ RecvHeartbeat(c)
    \/ RecvIdentify(c)
    \/ RecvResume(c)
    \/ RecvUnexpected(c)
    \/ CheckTokenErr(c)
    \/ CheckTokenOk(c)
    \/ LockStore(c)
    \/ LockStorePending(c)
    \/ GetUserAndBuildClient(c)
    \/ LockUser(c)
    \/ LockUserPending(c)
    \/ PushClientAndReturn(c)
    \/ ResumeConnectionReturns(c)

HeartbeatHandler(c) ==
    \/ HeartbeatHandlerReceives(c)
    \/ HeartbeatHandlerLocks(c)
    \/ HeartbeatHandlerAcks(c)
    \/ HeartbeatHandlerKilled(c)
    \/ HeartbeatHandlerTimesOut(c)

Next ==
    \/ Tick
    \/ \E c \in Conns : Orchestrator(c)
    \/ \E c \in Conns : HeartbeatHandler(c)

Spec == Init /\ [][Next]_vars


\* ============================================================ claims
LoopPcs == {"lock_conn", "wait_conn", "next"}
ErrorResults == {"HandshakeFailed", "Timeout", "Closed", "InvalidToken",
                 "UnexpectedMessage"}
Written(c) == {outbox[c][i] : i \in DOMAIN outbox[c]}
ClientsOf(i) == {users[i].clients[k] : k \in DOMAIN users[i].clients}

\* C1: once the select! is entered one sleep of 30 s bounds the wait.  While
\* the call is in the race the time left of the sleep is exactly 30 s minus
\* the time spent in the race, however many heartbeats the loop has handled;
\* once 30 s have been spent and finish_connecting is suspended, the sleep
\* branch is ready, and the sleep branch returns Timeout.
C1_SingleSleepBoundsRace ==
    \A c \in Conns :
        /\ InRace(c) => sleepLeft[c] = HandshakeTimeoutSecs - waited[c]
        /\ (Suspended(c) /\ waited[c] >= HandshakeTimeoutSecs) => ENABLED SelectSleep(c)
        /\ cause[c] = "sleep" => result[c] = "Timeout"

\* The sleep elapsed after the loop had handled two heartbeats.
C1_Witness ==
    \E c \in Conns : cause[c] = "sleep" /\ result[c] = "Timeout" /\ hbSeen[c] >= 2

\* C2 (as claimed): every heartbeat frame the handshake loop receives,
\* the first one included, is handed to the HeartbeatHandler.
C2_EveryHeartbeatDelivered ==
    \A c \in Conns : hb[c] # "dead" => hbForwarded[c] = hbSeen[c]

\* C3 (as claimed): the handshake loop does not hold the Connection mutex
\* while it waits for the next inbound frame.
C3_NoLockAcrossFrameWait ==
    \A c \in Conns : pc[c] = "next" => connLock[c] # "orch"

\* C4: a connection never has more than one HeartbeatHandler task or more
\* than one gateway_task; after k >= 0 heartbeats and a valid identify it
\* has exactly one of each, and the client's heartbeat_task_handle and
\* main_task_handle are the handles of those tasks.
C4_OneHandlerOneMainTask ==
    \A c \in Conns :
        /\ hbSpawned[c] <= 1
        /\ mainSpawned[c] <= 1
        /\ result[c] = "Ok" =>
              /\ hbSpawned[c] = 1
              /\ mainSpawned[c] = 1
              /\ client[c].heartbeat_task_handle = 1
              /\ client[c].main_task_handle = 1

\* Two heartbeats, then a valid identify.
C4_Witness ==
    \E c \in Conns : result[c] = "Ok" /\ hbSeen[c] >= 2 /\ hbForwarded[c] >= 1

\* C5: the orchestrator broadcasts kill exactly when check_token fails, and
\* the call that did so has returned InvalidToken: never Closed, and never
\* still racing with its own kill signal pending.
C5_InvalidTokenNeverClosed ==
    \A c \in Conns :
        /\ "orchestrator" \in killBy[c] => result[c] = "InvalidToken" /\ pc[c] = "done"
        /\ cause[c] = "check_token" => "orchestrator" \in killBy[c]

\* The token of an identify failed while a heartbeat handler was subscribed
\* to the kill channel.
C5_Witness ==
    \E c \in Conns :
        /\ result[c] = "InvalidToken"
        /\ "orchestrator" \in killBy[c]
        /\ hbSpawned[c] = 1

\* C6 (as claimed): a call that failed with Timeout, InvalidToken or
\* UnexpectedMessage has written a close frame with the matching code.
CloseCode(r) ==
    CASE r = "Timeout" -> 4009
      [] r = "InvalidToken" -> 4004
      [] r = "UnexpectedMessage" -> 4002
      [] OTHER -> 0

C6_CloseFrameBeforeError ==
    \A c \in Conns :
        result[c] \in {"Timeout", "InvalidToken", "UnexpectedMessage"} =>
            Close(CloseCode(result[c])) \in Written(c)

\* C7: a frame is handled as the earliest of Heartbeat, Identify, Resume it
\* parses as; after anything but a heartbeat the loop is left; a frame that
\* parses as none of them ends the call with UnexpectedMessage, the users
\* store untouched by that connection.
ShapeOrder == <<"Heartbeat", "Identify", "Resume">>
EarliestShape(s) ==
    IF \A i \in DOMAIN ShapeOrder : ShapeOrder[i] \notin s
    THEN "Unexpected"
    ELSE ShapeOrder[CHOOSE i \in DOMAIN ShapeOrder :
                        /\ ShapeOrder[i] \in s
                        /\ \A j \in 1..(i - 1) : ShapeOrder[j] \notin s]

C7_ParsePrecedence ==
    lastFrame.conn # 0 =>
        LET c == lastFrame.conn
            a == lastFrame.as
        IN /\ a = EarliestShape(lastFrame.frame.s)
           /\ a # "Heartbeat" => pc[c] \notin LoopPcs
           /\ a = "Heartbeat" =>
                 \/ pc[c] \in LoopPcs
                 \/ cause[c] \in {"sleep", "kill", "stream_end", "stream_error"}
           /\ a = "Unexpected" =>
                 /\ result[c] = "UnexpectedMessage"
                 /\ claims[c] = 0
                 /\ gateway_user[c] = 0
                 /\ creator \in Seq(Conns \ {c})

\* A frame that parses as all three shapes was handled as a heartbeat.
C7_Witness ==
    /\ lastFrame.conn # 0
    /\ lastFrame.frame.s = Shapes
    /\ lastFrame.as = "Heartbeat"
    /\ pc[lastFrame.conn] \in LoopPcs

\* C8: get_or_new_gateway_user is idempotent under concurrency: there is one
\* GatewayUser object per user id, the store's entry for an id is the object
\* every identify of that id got, and a user's clients are exactly the
\* clients of the identifies of its id that succeeded, each listed once.
C8_GetOrNewIdempotent ==
    /\ \A i, j \in DOMAIN users : users[i].id = users[j].id => i = j
    /\ \A i \in DOMAIN users : store[users[i].id] = i
    /\ \A c \in Conns : gateway_user[c] # 0 => gateway_user[c] = store[claims[c]]
    /\ \A i \in DOMAIN users :
          /\ ClientsOf(i) = {c \in Conns : result[c] = "Ok" /\ claims[c] = users[i].id}
          /\ Len(users[i].clients) = Cardinality(ClientsOf(i))

\* Two identifies of the same user id succeeded.
C8_Witness ==
    \E c, d \in Conns :
        /\ c # d
        /\ result[c] = "Ok" /\ result[d] = "Ok"
        /\ claims[c] = claims[d]
        /\ Len(users[store[claims[c]]].clients) = 2

\* C9: every client listed in a GatewayUser's clients has that user as its
\* parent; a successful identify returns the store's entry for the token's
\* user id and the client registered in that user's clients.
C9_ParentAndNewConnection ==
    /\ \A i \in DOMAIN users : \A k \in ClientsOf(i) : client[k].parent = i
    /\ \A c \in Conns :
          result[c] = "Ok" =>
              /\ newConn[c].user = store[claims[c]]
              /\ newConn[c].user \in DOMAIN users
              /\ newConn[c].client = c
              /\ newConn[c].client \in ClientsOf(newConn[c].user)

\* An identify succeeded on a connection that had sent a heartbeat first.
C9_Witness ==
    \E c \in Conns :
        /\ result[c] = "Ok"
        /\ hbSeen[c] >= 1
        /\ client[c].parent = newConn[c].user
        /\ newConn[c].user # 0

\* C10 (as claimed): after establish_connection returned an error, no
\* gateway_task spawned for the connection exists and the store holds no
\* user with an empty clients list that the connection created.
C10_NoStateAfterError ==
    \A c \in Conns :
        result[c] \in ErrorResults =>
            /\ mainSpawned[c] = 0
            /\ \A i \in DOMAIN users :
                  (creator[i] = c /\ store[users[i].id] = i) => users[i].clients # <<>>

\* C11 (as claimed): the handshake deadline bounds the whole call.  Once a
\* call has spent the deadline, in the upgrade, in the Hello write or in the
\* select!, and is parked at an await, the sleep branch can return it
\* without any help from the peer.
Elapsed(c) == stalled[c] + waited[c]
Parked(c) == Upgrading(c) \/ Suspended(c)

C11_DeadlineBoundsWholeCall ==
    \A c \in Conns :
        (Parked(c) /\ Elapsed(c) >= HandshakeTimeoutSecs) => ENABLED SelectSleep(c)

C13_StreamEndIsClosed ==
    \A c \in Conns :
        /\ cause[c] = "stream_end" => result[c] = "Closed"
        /\ result[c] = "Timeout" => cause[c] = "sleep"

\* C14 (as claimed): every client of a successful identify got one
\* session_id, sent on its session_id channel, and no two clients got the
\* same one.
C14_UniqueSessionIds ==
    \A c \in Conns :
        result[c] = "Ok" =>
            /\ Len(session_id_send(c)) = 1
            /\ \A d \in Conns \ {c} :
                  result[d] = "Ok" => session_id_send(d) # session_id_send(c)

\* C15: Hello is the first frame written and is written once; until it is
\* written no frame was read, no channel receiver, handler or main task
\* exists; a call that failed in the upgrade or in the Hello write returned
\* an error having written nothing, spawned nothing and created no user.
NothingYet(c) ==
    /\ outbox[c] = <<>>
    /\ killRx[c] = {} /\ killQ[c] = {} /\ killBy[c] = {}
    /\ hbSpawned[c] = 0 /\ hb[c] = "none" /\ mainSpawned[c] = 0
    /\ hbSeen[c] = 0 /\ lastFrame.conn # c
    /\ claims[c] = 0 /\ gateway_user[c] = 0 /\ client[c] = NoClient
    /\ \A i \in DOMAIN users : creator[i] # c

C15_HelloFirstAndOnce ==
    \A c \in Conns :
        /\ pc[c] \in {"accept", "hello"} => NothingYet(c)
        /\ cause[c] \in {"accept_async", "hello"} =>
              (result[c] \in {"HandshakeFailed", "Transport"} /\ NothingYet(c))
        /\ (pc[c] \notin {"accept", "hello"} /\ cause[c] \notin {"accept_async", "hello"}) =>
              /\ outbox[c] # <<>>
              /\ outbox[c][1] = Hello
              /\ Cardinality({i \in DOMAIN outbox[c] : outbox[c][i] = Hello}) = 1

\* One connection failed in the Hello write; the other wrote Hello and then
\* a HeartbeatAck.
C15_Witness ==
    \E c, d \in Conns :
        /\ cause[d] = "hello" /\ result[d] = "Transport"
        /\ Len(outbox[c]) >= 2
        /\ outbox[c][1] = Hello /\ outbox[c][2] = HeartbeatAck

\* C16 (as claimed): a handler spawned by heartbeats before a Resume frame
\* is handed over with the Resume branch: after resume_connection returned,
\* a handler that still runs is held by a JoinHandle.
HandlerHeld(c) ==
    \/ heartbeat_handler_handle[c] # 0
    \/ client[c].heartbeat_task_handle # 0

C16_HandlerHandedToResume ==
    \A c \in Conns :
        (cause[c] = "resume" /\ HandlerRuns(c)) => HandlerHeld(c)

\* C17 (as claimed): after a successful identify the client's main task
\* holds a sender of the heartbeat channel its handler receives on.
C17_HeartbeatChannelStaysOpen ==
    \A c \in Conns :
        result[c] = "Ok" => "gateway_task" \in MessageSenders(c)

\* C18 (as claimed): both tasks of a client, the heartbeat task and the
\* main task, hold a receiver of the client's kill channel while they run.
C18_TasksSubscribedToKill ==
    \A c \in Conns :
        /\ HandlerRuns(c) => "hb" \in killRx[c]
        /\ (result[c] = "Ok" /\ mainSpawned[c] >= 1) => "main" \in killRx[c]

\* C19: the kill broadcast on an invalid token never fails: while the
\* call is in the select! both of its own receivers are alive, whatever
\* the heartbeat handler did, so the send of line 174 finds a receiver
\* and no call ends in a panic.
C19_KillSendNeverFails ==
    \A c \in Conns :
        /\ InRace(c) => {"second_kill_receive", "kill_receive"} \subseteq killRx[c]
        /\ pc[c] = "check_token" => killRx[c] # {}
        /\ result[c] # "Panic"

\* The token failed after the heartbeat handler had already exited.
C19_Witness ==
    \E c \in Conns :
        /\ result[c] = "InvalidToken"
        /\ hbSpawned[c] = 1 /\ hb[c] = "dead"
        /\ killBy[c] = {"heartbeat", "orchestrator"}

\* C20 (as claimed): when the call returns an error after a heartbeat
\* handler was spawned, the handler has exited or has the kill signal
\* waiting in its receiver.
C20_HandlerStoppedOnError ==
    \A c \in Conns :
        (result[c] \in ErrorResults /\ hbSpawned[c] >= 1) =>
            (~HandlerRuns(c) \/ "hb" \in killQ[c])

====
